---- MODULE Spec2Model ----
(***************************************************************************)
(* Terminal Racer (src/src/main.cpp): the menu, the game loop and the      *)
(* obstacle field, as a state machine.  One loop iteration of gameLoop is  *)
(* the sequence  poll -> time -> [update -> check] -> draw.                *)
(***************************************************************************)
EXTENDS Integers, Sequences, FiniteSets, TLC

\* ---- configuration (main.cpp:29-31) ----
TRACK_WIDTH == 20
SCREEN_HEIGHT == 20
START_PLAYER_X == (TRACK_WIDTH \div 2) + 1

\* ---- bounds of the model ----
\* SpecGame explores a session until this many obstacles have been cleared
MaxCleared == 2
\* Spec explores a session while the field holds at most this many obstacles
MaxObstacles == 2
\* values of rand() at main.cpp:267 (0: the 30% draw succeeds, 9: it fails)
SpawnDraws == {0, 9}
\* values of rand() at main.cpp:270 in Spec (0: column 2, 9: column 11)
ColumnDraws == {0, 9}
\* values of rand() at main.cpp:270 in SpecGame (8: column 10, left of the start column)
GameColumnDraws == {8}
\* values of rand() at main.cpp:270 in SpecField (0: column 2, 19: column TRACK_WIDTH+1)
FieldColumnDraws == {0, 19}
\* milliseconds that may pass between two readings of the steady clock
Delays == {50, 100}
\* key tokens: "ETX" is the byte 0x03 (Ctrl-C)
BindableKeys == {"a", "d", "q"}
PolledInputs == {"", "a", "d", "q", "Q", "ETX", "x"}
\* numbers typed at the level prompt
LevelInputs == {0, 3, 6}

\* lines typed at the level prompt in SpecLevels, as sequences of characters
TypedLevels == { <<"0">>, <<"1">>, <<"2">>, <<"3">>, <<"4">>, <<"5">>, <<"6">>,
                 <<"1", "0">>, <<"-", "1">>, <<"4", "x">>, <<"a", "b", "c">> }
\* keys polled in SpecLevels
LevelsPolledInputs == {"", "q"}

\* highscore.txt when the program is first run in SpecFile: no file, "15", "abc", "-5"
InitialFiles == { [exists |-> FALSE, text |-> <<>>],
                  [exists |-> TRUE, text |-> <<"1", "5">>],
                  [exists |-> TRUE, text |-> <<"a", "b", "c">>],
                  [exists |-> TRUE, text |-> <<"-", "5">>] }

\* what is typed in SpecDecoder, byte by byte ("ESC" is the byte 0x1B): the
\* left and right arrows, an arrow with a key right behind it, a lone ESC, a
\* plain key, a plain key before an arrow
KeyScripts == { <<"ESC", "[", "D">>, <<"ESC", "[", "C">>, <<"ESC", "[", "D", "a">>,
                <<"ESC">>, <<"a">>, <<"a", "ESC", "[", "C">> }

VARIABLES
    obstacles,       \* std::vector<Car> obstacles, front = oldest
    playerX,         \* int playerX
    score,           \* long long score
    gameOver,        \* bool gameOver
    highestScore,    \* long long highestScore
    difficultyLevel, \* int difficultyLevel
    moveLeftKey,     \* std::string moveLeftKey
    moveRightKey,    \* std::string moveRightKey
    pc,              \* position of main / gameLoop
    input,           \* gameLoop's local `input` of the current iteration
    sinceUpdate,     \* steady_clock::now() - lastUpdateTime, in ms
    cleared,         \* history: obstacles erased in this session
    hitAtTickStart,  \* history: an obstacle was on the player's cell when the current tick began
    idle,            \* history: no key has been polled in this session
    spawnDraw,       \* history: the value of rand() at main.cpp:267 in the updateObstacles just run
    hsFile,          \* the file highscore.txt: whether it exists, and its characters
    lastSaved,       \* history: the score written by the latest save, -1 before any
    termMode,        \* the settings of the terminal device: "cooked" or "raw"
    originalTermios, \* struct termios originalTermios: the settings it holds
    cursorVisible,   \* whether the terminal shows its cursor
    stdinBuf,        \* bytes waiting in the input queue of the terminal
    toArrive,        \* bytes typed that have not reached the input queue yet
    typed,           \* history: all the bytes typed
    dpc,             \* position of getInputSequence
    res,             \* getInputSequence's local `res`
    waited,          \* getInputSequence's local `waited`
    tokens           \* history: the non-empty results getInputSequence has returned

vars == <<obstacles, playerX, score, gameOver, highestScore, difficultyLevel,
          moveLeftKey, moveRightKey, pc, input, sinceUpdate, cleared, hitAtTickStart, idle,
          spawnDraw, hsFile, lastSaved, termMode, originalTermios, cursorVisible,
          stdinBuf, toArrive, typed, dpc, res, waited, tokens>>

termVars == <<termMode, originalTermios, cursorVisible>>
decVars == <<stdinBuf, toArrive, typed, dpc, res, waited, tokens>>

\* ---- pure parts of the code ----

\* main.cpp:262  for (auto &obs : obstacles) obs.y++;
AdvanceRows(obs) == [i \in 1..Len(obs) |-> [x |-> obs[i].x, y |-> obs[i].y + 1]]

\* mutant: the front obstacle is erased one row late
FrontPassed_late(obs) == obs # <<>> /\ Head(obs).y > SCREEN_HEIGHT + 1

\* mutant: the front obstacle is erased as soon as it is on the bottom row
FrontPassed_m(obs) == obs # <<>> /\ Head(obs).y >= SCREEN_HEIGHT

\* main.cpp:263  !obstacles.empty() && obstacles.front().y > SCREEN_HEIGHT
FrontPassed(obs) == obs # <<>> /\ Head(obs).y > SCREEN_HEIGHT

\* mutant: an erased obstacle is worth 1
ScoreAfterErase_m(sc) == sc + 1

\* main.cpp:265  score += 10;
ScoreAfterErase(sc) == sc + 10

\* mutant: the next obstacle is spawned one row early
shouldSpawn_m(r, obs) ==
    ((r % 10) < 3 /\ obs = <<>>) \/ (obs # <<>> /\ obs[Len(obs)].y >= 2)

\* main.cpp:267-268
shouldSpawn(r, obs) ==
    ((r % 10) < 3 /\ obs = <<>>) \/ (obs # <<>> /\ obs[Len(obs)].y > 2)

\* mutant: the row of the obstacle is not compared
Collides_m(obs, px) == \E i \in 1..Len(obs) : obs[i].x = px

\* main.cpp:270  int newX = (rand() % TRACK_WIDTH) + 2;
newX(r) == (r % TRACK_WIDTH) + 2

\* main.cpp:275-280  the loop of checkCollision
Collides(obs, px) == \E i \in 1..Len(obs) : obs[i].y = SCREEN_HEIGHT /\ obs[i].x = px

\* main.cpp:425-426
msDuration(level) == IF 120 - (level * 20) < 20 THEN 20 ELSE 120 - (level * 20)

\* mutant: the key "x" quits as well
IsQuit_x(in) == in = "q" \/ in = "Q" \/ in = "ETX" \/ in = "x"

\* mutant: any key that is not bound quits
IsQuit_m(in) == in # ""

\* main.cpp:438
IsQuit(in) == in = "q" \/ in = "Q" \/ in = "ETX"

\* ---- formatted integer input and output (operator>> and operator<< on streams) ----

DigitChars == <<"0", "1", "2", "3", "4", "5", "6", "7", "8", "9">>
IsDigit(c) == \E i \in 1..10 : DigitChars[i] = c
DigitVal(c) == (CHOOSE i \in 1..10 : DigitChars[i] = c) - 1

\* the digits at the front of a text, as a number; acc is the value so far
RECURSIVE ReadDigits(_, _)
ReadDigits(text, acc) ==
    IF text # <<>> /\ IsDigit(Head(text))
    THEN ReadDigits(Tail(text), (10 * acc) + DigitVal(Head(text)))
    ELSE acc

\* stream >> integer: an optional sign and at least one digit, read up to the
\* first other character; ok is the state of the stream afterwards
ExtractInt(text) ==
    LET neg == text # <<>> /\ Head(text) = "-"
        body == IF neg THEN Tail(text) ELSE text
    IN  IF body # <<>> /\ IsDigit(Head(body))
        THEN [ok |-> TRUE, val |-> IF neg THEN 0 - ReadDigits(body, 0) ELSE ReadDigits(body, 0)]
        ELSE [ok |-> FALSE, val |-> 0]

\* mutant: the last digit is not written
RECURSIVE ToDigits_m(_)
ToDigits_m(n) ==
    IF n < 0 THEN <<"-">> \o ToDigits_m(0 - n)
    ELSE IF n < 10 THEN <<DigitChars[n + 1]>>
    ELSE ToDigits_m(n \div 10)

\* stream << integer: the decimal digits, with a sign for a negative number
RECURSIVE ToDigits(_)
ToDigits(n) ==
    IF n < 0 THEN <<"-">> \o ToDigits(0 - n)
    ELSE IF n < 10 THEN <<DigitChars[n + 1]>>
    ELSE ToDigits(n \div 10) \o <<DigitChars[(n % 10) + 1]>>

\* highscore.txt does not exist
NoFile == [exists |-> FALSE, text |-> <<>>]

\* main.cpp:352, 361-364  the value of inputLevel after the prompt was answered
readLevel(text, current) ==
    IF ExtractInt(text).ok THEN ExtractInt(text).val ELSE current

\* no key has been typed and getInputSequence is not running
DecoderIdle ==
    /\ stdinBuf = <<>>
    /\ toArrive = <<>>
    /\ typed = <<>>
    /\ dpc = "idle"
    /\ res = <<>>
    /\ waited = 0
    /\ tokens = <<>>

\* ---- the terminal ----

\* main.cpp:127-133  setupTerminal: save the current settings, switch to raw
setupTerminal ==
    /\ originalTermios' = termMode
    /\ termMode' = "raw"
    /\ UNCHANGED cursorVisible

\* mutant: the settings are not written back
restoreTerminal_m ==
    /\ cursorVisible' = TRUE
    /\ UNCHANGED <<termMode, originalTermios>>

\* main.cpp:144-147  restoreTerminal: write the saved settings back, show the cursor
restoreTerminal ==
    /\ termMode' = originalTermios
    /\ cursorVisible' = TRUE
    /\ UNCHANGED originalTermios

\* ---- initial state: globals as initialised at main.cpp:45-56, main at showMenu ----
Init ==
    /\ obstacles = <<>>
    /\ playerX = START_PLAYER_X
    /\ score = 0
    /\ gameOver = FALSE
    /\ highestScore = 0
    /\ difficultyLevel = 1
    /\ moveLeftKey = "a"
    /\ moveRightKey = "d"
    /\ pc = "menu"
    /\ input = ""
    /\ sinceUpdate = 0
    /\ cleared = 0
    /\ hitAtTickStart = FALSE
    /\ idle = TRUE
    /\ spawnDraw = 0
    /\ hsFile = NoFile
    /\ lastSaved = -1
    /\ termMode = "raw"
    /\ originalTermios = "cooked"
    /\ cursorVisible = TRUE
    /\ DecoderIdle

\* ---- menu ----

\* mutant: level 6 is accepted
showLevelSelect_m(inputLevel) ==
    /\ pc = "menu"
    /\ UNCHANGED <<hsFile, lastSaved, termVars, decVars>>
    /\ difficultyLevel' = IF inputLevel >= 1 /\ inputLevel <= 6 THEN inputLevel ELSE difficultyLevel
    /\ UNCHANGED <<obstacles, playerX, score, gameOver, highestScore, moveLeftKey,
                   moveRightKey, pc, input, sinceUpdate, cleared, hitAtTickStart, idle,
                   spawnDraw>>

\* main.cpp:351-370  showLevelSelect, with the number typed at the prompt
showLevelSelect(inputLevel) ==
    /\ pc = "menu"
    /\ UNCHANGED <<hsFile, lastSaved, termVars, decVars>>
    /\ difficultyLevel' = IF inputLevel >= 1 /\ inputLevel <= 5 THEN inputLevel ELSE difficultyLevel
    /\ UNCHANGED <<obstacles, playerX, score, gameOver, highestScore, moveLeftKey,
                   moveRightKey, pc, input, sinceUpdate, cleared, hitAtTickStart, idle,
                   spawnDraw>>

\* main.cpp:313-349  showControlsMenu, with the two keys pressed
showControlsMenu(l, r) ==
    /\ pc = "menu"
    /\ UNCHANGED <<hsFile, lastSaved, termVars, decVars>>
    /\ moveLeftKey' = l
    /\ moveRightKey' = r
    /\ UNCHANGED <<obstacles, playerX, score, gameOver, highestScore, difficultyLevel,
                   pc, input, sinceUpdate, cleared, hitAtTickStart, idle, spawnDraw>>

\* ---- game loop ----

\* mutant: the obstacles of the previous session are kept
gameLoopStart_m ==
    /\ pc = "menu"
    /\ UNCHANGED <<hsFile, lastSaved, termVars, decVars>>
    /\ gameOver' = FALSE
    /\ score' = 0
    /\ playerX' = START_PLAYER_X
    /\ sinceUpdate' = 0
    /\ pc' = "poll"
    /\ input' = ""
    /\ cleared' = 0
    /\ hitAtTickStart' = FALSE
    /\ idle' = TRUE
    /\ UNCHANGED <<obstacles, highestScore, difficultyLevel, moveLeftKey, moveRightKey,
                   spawnDraw>>

\* main.cpp:417-429  menu choice 1: gameLoop's reset and the first reading of the clock
gameLoopStart ==
    /\ pc = "menu"
    /\ UNCHANGED <<hsFile, lastSaved, termVars, decVars>>
    /\ gameOver' = FALSE
    /\ score' = 0
    /\ playerX' = START_PLAYER_X
    /\ obstacles' = <<>>
    /\ sinceUpdate' = 0
    /\ pc' = "poll"
    /\ input' = ""
    /\ cleared' = 0
    /\ hitAtTickStart' = FALSE
    /\ idle' = TRUE
    /\ UNCHANGED <<highestScore, difficultyLevel, moveLeftKey, moveRightKey, spawnDraw>>

\* main.cpp:435  if (playerX > 2) playerX--;
MoveLeft(px) == IF px > 2 THEN px - 1 ELSE px

\* mutant: the right border is off by one
MoveRight_m(px) == IF px <= TRACK_WIDTH + 1 THEN px + 1 ELSE px

\* main.cpp:437  if (playerX < TRACK_WIDTH + 1) playerX++;
MoveRight(px) == IF px < TRACK_WIDTH + 1 THEN px + 1 ELSE px

\* main.cpp:431-441  the loop condition, getInputSequence() and the key dispatch
handleInput(in) ==
    /\ pc = "poll"
    /\ UNCHANGED <<hsFile, lastSaved, termVars, decVars>>
    /\ ~gameOver
    /\ input' = in
    /\ idle' = (idle /\ in = "")
    /\ IF in = "" THEN UNCHANGED <<playerX, gameOver>>
       ELSE IF in = moveLeftKey
            THEN /\ playerX' = MoveLeft(playerX)
                 /\ UNCHANGED gameOver
       ELSE IF in = moveRightKey
            THEN /\ playerX' = MoveRight(playerX)
                 /\ UNCHANGED gameOver
       ELSE IF IsQuit(in)
            THEN /\ gameOver' = TRUE
                 /\ UNCHANGED playerX
       ELSE UNCHANGED <<playerX, gameOver>>
    /\ pc' = "time"
    /\ UNCHANGED <<obstacles, score, highestScore, difficultyLevel, moveLeftKey,
                   moveRightKey, sinceUpdate, cleared, hitAtTickStart, spawnDraw>>

\* mutant: the tick waits until the interval is exceeded
TickDue_m(elapsed, level) == elapsed > msDuration(level)

\* main.cpp:445  elapsed >= updateDuration
TickDue(elapsed, level) == elapsed >= msDuration(level)

\* main.cpp:443-445  elapsed >= updateDuration
timeCheck ==
    /\ pc = "time"
    /\ UNCHANGED <<hsFile, lastSaved, termVars, decVars>>
    /\ pc' = IF TickDue(sinceUpdate, difficultyLevel) THEN "update" ELSE "draw"
    /\ UNCHANGED <<obstacles, playerX, score, gameOver, highestScore, difficultyLevel,
                   moveLeftKey, moveRightKey, input, sinceUpdate, cleared, hitAtTickStart, idle,
                   spawnDraw>>

\* main.cpp:261-273  updateObstacles, with the two values rand() returns
updateObstacles(r1, r2) ==
    /\ pc = "update"
    /\ UNCHANGED <<hsFile, lastSaved, termVars, decVars>>
    /\ LET adv == AdvanceRows(obstacles)
           erased == FrontPassed(adv)
           kept == IF erased THEN Tail(adv) ELSE adv
       IN  /\ obstacles' = IF shouldSpawn(r1, kept)
                           THEN Append(kept, [x |-> newX(r2), y |-> 1])
                           ELSE kept
           /\ score' = IF erased THEN ScoreAfterErase(score) ELSE score
           /\ cleared' = IF erased THEN cleared + 1 ELSE cleared
    /\ hitAtTickStart' = (\E i \in 1..Len(obstacles) :
                             obstacles[i].y = SCREEN_HEIGHT /\ obstacles[i].x = playerX)
    /\ spawnDraw' = r1
    /\ pc' = "check"
    /\ UNCHANGED <<playerX, gameOver, highestScore, difficultyLevel, moveLeftKey,
                   moveRightKey, input, sinceUpdate, idle>>

\* main.cpp:274-281 and 448  checkCollision, then lastUpdateTime = currentTime
checkCollision ==
    /\ pc = "check"
    /\ UNCHANGED <<hsFile, lastSaved, termVars, decVars>>
    /\ gameOver' = IF Collides(obstacles, playerX) THEN TRUE ELSE gameOver
    /\ sinceUpdate' = 0
    /\ spawnDraw' = 0
    /\ pc' = "draw"
    /\ UNCHANGED <<obstacles, playerX, score, highestScore, difficultyLevel, moveLeftKey,
                   moveRightKey, input, cleared, hitAtTickStart, idle>>

\* main.cpp:451-453  draw(), the 1 ms sleep and the loop test; d ms pass meanwhile
drawAndSleep(d) ==
    /\ pc = "draw"
    /\ UNCHANGED <<hsFile, lastSaved, termVars, decVars>>
    /\ sinceUpdate' = sinceUpdate + d
    /\ pc' = IF gameOver THEN "save" ELSE "poll"
    /\ input' = ""
    /\ hitAtTickStart' = FALSE
    /\ UNCHANGED <<obstacles, playerX, score, gameOver, highestScore, difficultyLevel,
                   moveLeftKey, moveRightKey, cleared, idle, spawnDraw>>

\* main.cpp:249-258 and 455, 471-477  saveHighestScore, the game-over screen, back to the menu
saveHighestScore ==
    /\ pc = "save"
    /\ IF score > highestScore
       THEN /\ highestScore' = score
            /\ hsFile' = [exists |-> TRUE, text |-> ToDigits(score)]
            /\ lastSaved' = score
       ELSE UNCHANGED <<highestScore, hsFile, lastSaved>>
    /\ sinceUpdate' = 0
    /\ pc' = "menu"
    /\ UNCHANGED <<obstacles, playerX, score, gameOver, difficultyLevel, moveLeftKey,
                   moveRightKey, input, cleared, hitAtTickStart, idle, spawnDraw>>
    /\ UNCHANGED <<termVars, decVars>>

\* main.cpp:242-248 and 461-463  loadHighestScore, then setupTerminal
loadHighestScore ==
    /\ pc = "start"
    /\ highestScore' = IF hsFile.exists THEN ExtractInt(hsFile.text).val ELSE highestScore
    /\ setupTerminal
    /\ pc' = "menu"
    /\ UNCHANGED <<obstacles, playerX, score, gameOver, difficultyLevel, moveLeftKey,
                   moveRightKey, input, sinceUpdate, cleared, hitAtTickStart, idle,
                   spawnDraw, hsFile, lastSaved, decVars>>

\* main.cpp:405, 479, 486-488  menu choice 5: restoreTerminal, main returns
exitProgram ==
    /\ pc = "menu"
    /\ restoreTerminal
    /\ pc' = "exited"
    /\ UNCHANGED <<obstacles, playerX, score, gameOver, highestScore, difficultyLevel,
                   moveLeftKey, moveRightKey, input, sinceUpdate, cleared, hitAtTickStart,
                   idle, spawnDraw, hsFile, lastSaved, decVars>>

\* main.cpp:45-56, 459-460  the program is run again: the globals get their
\* initial values, the file is what the previous run left
programStart ==
    /\ pc = "exited"
    /\ obstacles' = <<>>
    /\ playerX' = START_PLAYER_X
    /\ score' = 0
    /\ gameOver' = FALSE
    /\ highestScore' = 0
    /\ difficultyLevel' = 1
    /\ moveLeftKey' = "a"
    /\ moveRightKey' = "d"
    /\ pc' = "start"
    /\ input' = ""
    /\ sinceUpdate' = 0
    /\ cleared' = 0
    /\ hitAtTickStart' = FALSE
    /\ idle' = TRUE
    /\ spawnDraw' = 0
    /\ UNCHANGED <<hsFile, lastSaved, termVars, decVars>>

\* the whole program; sessions are explored while the field is short
Next ==
    \/ \E n \in LevelInputs : showLevelSelect(n)
    \/ \E l \in BindableKeys, r \in BindableKeys : showControlsMenu(l, r)
    \/ gameLoopStart
    \/ Len(obstacles) <= MaxObstacles /\ \E in \in PolledInputs : handleInput(in)
    \/ timeCheck
    \/ \E r1 \in SpawnDraws, r2 \in ColumnDraws : updateObstacles(r1, r2)
    \/ checkCollision
    \/ \E d \in Delays : drawAndSleep(d)
    \/ saveHighestScore

Spec == Init /\ [][Next]_vars

\* sessions played with the default level and keys, explored until MaxCleared
\* obstacles have scrolled off the track
NextGame ==
    \/ gameLoopStart
    \/ score < 10 * MaxCleared /\ \E in \in PolledInputs : handleInput(in)
    \/ timeCheck
    \/ \E r1 \in SpawnDraws, r2 \in GameColumnDraws : updateObstacles(r1, r2)
    \/ checkCollision
    \/ \E d \in Delays : drawAndSleep(d)
    \/ saveHighestScore

SpecGame == Init /\ [][NextGame]_vars

\* sessions with no key pressed and obstacles in the two border columns,
\* explored until MaxCleared obstacles have scrolled off the track
NextField ==
    \/ gameLoopStart
    \/ score < 10 * MaxCleared /\ handleInput("")
    \/ timeCheck
    \/ \E r1 \in SpawnDraws, r2 \in FieldColumnDraws : updateObstacles(r1, r2)
    \/ checkCollision
    \/ \E d \in Delays : drawAndSleep(d)

SpecField == Init /\ [][NextField]_vars

\* the level prompt answered with any text, and short sessions at every level
NextLevels ==
    \/ \E t \in TypedLevels : showLevelSelect(readLevel(t, difficultyLevel))
    \/ gameLoopStart
    \/ Len(obstacles) <= MaxObstacles /\ \E in \in LevelsPolledInputs : handleInput(in)
    \/ timeCheck
    \/ \E r1 \in SpawnDraws, r2 \in GameColumnDraws : updateObstacles(r1, r2)
    \/ checkCollision
    \/ \E d \in Delays : drawAndSleep(d)
    \/ saveHighestScore

SpecLevels == Init /\ [][NextLevels]_vars

\* runs of the program, one after the other, over the same highscore.txt
InitFile ==
    /\ obstacles = <<>>
    /\ playerX = START_PLAYER_X
    /\ score = 0
    /\ gameOver = FALSE
    /\ highestScore = 0
    /\ difficultyLevel = 1
    /\ moveLeftKey = "a"
    /\ moveRightKey = "d"
    /\ pc = "start"
    /\ input = ""
    /\ sinceUpdate = 0
    /\ cleared = 0
    /\ hitAtTickStart = FALSE
    /\ idle = TRUE
    /\ spawnDraw = 0
    /\ hsFile \in InitialFiles
    /\ lastSaved = -1
    /\ termMode = "cooked"
    /\ originalTermios = "unset"
    /\ cursorVisible = TRUE
    /\ DecoderIdle

NextFile ==
    \/ loadHighestScore
    \/ gameLoopStart
    \/ score < 10 * MaxCleared /\ \E in \in LevelsPolledInputs : handleInput(in)
    \/ timeCheck
    \/ \E r1 \in SpawnDraws, r2 \in GameColumnDraws : updateObstacles(r1, r2)
    \/ checkCollision
    \/ \E d \in Delays : drawAndSleep(d)
    \/ saveHighestScore
    \/ exitProgram
    \/ programStart

SpecFile == InitFile /\ [][NextFile]_vars

\* ---- main and the menus, one step per terminal call, read or poll ----

\* what the steps below never touch
sessionVars == <<obstacles, playerX, score, highestScore, input, sinceUpdate, cleared,
                 hitAtTickStart, idle, spawnDraw, hsFile, lastSaved>>

\* a call of setupTerminal at position from
setupAt(from, to) ==
    /\ pc = from
    /\ setupTerminal
    /\ pc' = to
    /\ UNCHANGED <<sessionVars, decVars, gameOver, difficultyLevel, moveLeftKey, moveRightKey>>

\* a call of restoreTerminal at position from
restoreAt(from, to) ==
    /\ pc = from
    /\ restoreTerminal
    /\ pc' = to
    /\ UNCHANGED <<sessionVars, decVars, gameOver, difficultyLevel, moveLeftKey, moveRightKey>>

\* main.cpp:347, 391-392, 402, 409, 476  a line is read from std::cin and dropped or
\* kept in a local
readLineAt(from, to) ==
    /\ pc = from
    /\ pc' = to
    /\ UNCHANGED <<sessionVars, termVars, decVars, gameOver, difficultyLevel, moveLeftKey,
                   moveRightKey>>

\* main.cpp:393-411  setupTerminal after the choice was read, then the switch
menuSetup(choice) ==
    setupAt("menu_setup",
            CASE choice = 1 -> "loop_enter"
              [] choice = 2 -> "level_restore"
              [] choice = 3 -> "ctl_left"
              [] choice = 5 -> "exit_restore"
              [] OTHER -> "ack_restore")

\* main.cpp:361-368  the level is read and clamped, ENTER is awaited
levelRead(text) ==
    /\ pc = "level_read"
    /\ LET inputLevel == readLevel(text, difficultyLevel)
       IN  difficultyLevel' = IF inputLevel >= 1 /\ inputLevel <= 5
                              THEN inputLevel ELSE difficultyLevel
    /\ pc' = "level_setup"
    /\ UNCHANGED <<sessionVars, termVars, decVars, gameOver, moveLeftKey, moveRightKey>>

\* main.cpp:322-327  keys are polled until one is pressed; it becomes the left key
ctlLeft(k) ==
    /\ pc = "ctl_left"
    /\ moveLeftKey' = k
    /\ pc' = "ctl_right"
    /\ UNCHANGED <<sessionVars, termVars, decVars, gameOver, difficultyLevel, moveRightKey>>

\* main.cpp:332-337  the same for the right key
ctlRight(k) ==
    /\ pc = "ctl_right"
    /\ moveRightKey' = k
    /\ pc' = "ctl_restore"
    /\ UNCHANGED <<sessionVars, termVars, decVars, gameOver, difficultyLevel, moveLeftKey>>

\* main.cpp:417-423  gameLoop starts: gameOver = false, hideCursor()
loopEnter ==
    /\ pc = "loop_enter"
    /\ gameOver' = FALSE
    /\ cursorVisible' = FALSE
    /\ pc' = "loop"
    /\ UNCHANGED <<sessionVars, decVars, termMode, originalTermios, difficultyLevel,
                   moveLeftKey, moveRightKey>>

\* main.cpp:431-456  the loop polls keys until gameOver is set, gameLoop returns
loopExit ==
    /\ pc = "loop"
    /\ gameOver' = TRUE
    /\ pc' = "over_restore"
    /\ UNCHANGED <<sessionVars, termVars, decVars, difficultyLevel, moveLeftKey, moveRightKey>>

\* positions inside the try block of main (main.cpp:466-479)
TryPositions ==
    {"menu_restore", "menu_read", "menu_setup", "level_restore", "level_read",
     "level_setup", "ctl_left", "ctl_right", "ctl_restore", "ctl_read", "ctl_setup",
     "ack_restore", "ack_read", "ack_setup", "loop_enter", "loop", "over_restore",
     "over_read", "over_setup"}

\* main.cpp:480  an exception (std::bad_alloc from a string) reaches the handler
throwInTry ==
    /\ pc \in TryPositions
    /\ pc' = "catch_restore"
    /\ UNCHANGED <<sessionVars, termVars, decVars, gameOver, difficultyLevel, moveLeftKey,
                   moveRightKey>>

\* SIGINT is delivered; no handler is installed, the process ends at once
interrupt ==
    /\ pc \in TryPositions \cup {"main_setup", "exit_restore", "catch_restore"}
    /\ pc' = "killed"
    /\ UNCHANGED <<sessionVars, termVars, decVars, gameOver, difficultyLevel, moveLeftKey,
                   moveRightKey>>

InitTerm ==
    /\ obstacles = <<>>
    /\ playerX = START_PLAYER_X
    /\ score = 0
    /\ gameOver = FALSE
    /\ highestScore = 0
    /\ difficultyLevel = 1
    /\ moveLeftKey = "a"
    /\ moveRightKey = "d"
    /\ pc = "main_setup"
    /\ input = ""
    /\ sinceUpdate = 0
    /\ cleared = 0
    /\ hitAtTickStart = FALSE
    /\ idle = TRUE
    /\ spawnDraw = 0
    /\ hsFile = NoFile
    /\ lastSaved = -1
    /\ termMode = "cooked"
    /\ originalTermios = "unset"
    /\ cursorVisible = TRUE
    /\ DecoderIdle

\* the calls in the order of main.cpp:463-488, showMenu, showLevelSelect and
\* showControlsMenu
NextTerm ==
    \/ setupAt("main_setup", "menu_restore")
    \/ restoreAt("menu_restore", "menu_read")
    \/ readLineAt("menu_read", "menu_setup")
    \/ \E choice \in 0..5 : menuSetup(choice)
    \/ restoreAt("level_restore", "level_read")
    \/ \E t \in TypedLevels : levelRead(t)
    \/ setupAt("level_setup", "menu_restore")
    \/ \E k \in BindableKeys : ctlLeft(k)
    \/ \E k \in BindableKeys : ctlRight(k)
    \/ restoreAt("ctl_restore", "ctl_read")
    \/ readLineAt("ctl_read", "ctl_setup")
    \/ setupAt("ctl_setup", "menu_restore")
    \/ restoreAt("ack_restore", "ack_read")
    \/ readLineAt("ack_read", "ack_setup")
    \/ setupAt("ack_setup", "menu_restore")
    \/ loopEnter
    \/ loopExit
    \/ restoreAt("over_restore", "over_read")
    \/ readLineAt("over_read", "over_setup")
    \/ setupAt("over_setup", "menu_restore")
    \/ restoreAt("exit_restore", "exited")
    \/ throwInTry
    \/ restoreAt("catch_restore", "exited")
    \/ interrupt

SpecTerm == InitTerm /\ [][NextTerm]_vars

\* ---- getInputSequence, POSIX branch (main.cpp:183-217) ----

\* main.cpp:199  const int maxWaitMs = 100;
maxWaitMs == 100

\* mutant: the loop waits twice as long for the rest of an escape sequence
StillWaiting_m == waited < 2 * maxWaitMs

\* main.cpp:201  while (waited < maxWaitMs)
StillWaiting == waited < maxWaitMs

Min(a, b) == IF a < b THEN a ELSE b

\* the terminal delivers the next k typed bytes
arrive(k) ==
    /\ k \in 1..Len(toArrive)
    /\ stdinBuf' = stdinBuf \o SubSeq(toArrive, 1, k)
    /\ toArrive' = SubSeq(toArrive, k + 1, Len(toArrive))
    /\ UNCHANGED <<sessionVars, termVars, pc, gameOver, difficultyLevel, moveLeftKey,
                   moveRightKey, typed, dpc, res, waited, tokens>>

\* main.cpp:183-192  getInputSequence is called
decCall ==
    /\ dpc = "idle"
    /\ res' = <<>>
    /\ waited' = 0
    /\ dpc' = "select"
    /\ UNCHANGED <<sessionVars, termVars, pc, gameOver, difficultyLevel, moveLeftKey,
                   moveRightKey, stdinBuf, toArrive, typed, tokens>>

\* main.cpp:194-200  select() with a zero timeout, then one byte is read
decSelect ==
    /\ dpc = "select"
    /\ IF stdinBuf = <<>>
       THEN /\ dpc' = "done"
            /\ UNCHANGED <<res, stdinBuf>>
       ELSE /\ res' = Append(res, Head(stdinBuf))
            /\ stdinBuf' = Tail(stdinBuf)
            /\ dpc' = IF Head(stdinBuf) = "ESC" THEN "wait" ELSE "done"
    /\ UNCHANGED <<sessionVars, termVars, pc, gameOver, difficultyLevel, moveLeftKey,
                   moveRightKey, toArrive, typed, waited, tokens>>

\* main.cpp:201-212  one round of the wait loop: leave it, read what is
\* there (9 bytes at most) and leave it, or sleep 8 ms
decWait ==
    /\ dpc = "wait"
    /\ IF ~StillWaiting
       THEN /\ dpc' = "done"
            /\ UNCHANGED <<res, stdinBuf, waited>>
       ELSE IF Len(stdinBuf) > 0
            THEN /\ res' = res \o SubSeq(stdinBuf, 1, Min(Len(stdinBuf), 9))
                 /\ stdinBuf' = SubSeq(stdinBuf, Min(Len(stdinBuf), 9) + 1, Len(stdinBuf))
                 /\ dpc' = "done"
                 /\ UNCHANGED waited
            ELSE /\ waited' = waited + 8
                 /\ UNCHANGED <<res, stdinBuf, dpc>>
    /\ UNCHANGED <<sessionVars, termVars, pc, gameOver, difficultyLevel, moveLeftKey,
                   moveRightKey, toArrive, typed, tokens>>

\* main.cpp:216  return res; the caller polls again later
decReturn ==
    /\ dpc = "done"
    /\ tokens' = IF res = <<>> THEN tokens ELSE Append(tokens, res)
    /\ dpc' = "idle"
    /\ UNCHANGED <<sessionVars, termVars, pc, gameOver, difficultyLevel, moveLeftKey,
                   moveRightKey, stdinBuf, toArrive, typed, res, waited>>

\* a caller polls in raw mode while the bytes of some keys arrive
InitDec ==
    /\ obstacles = <<>>
    /\ playerX = START_PLAYER_X
    /\ score = 0
    /\ gameOver = FALSE
    /\ highestScore = 0
    /\ difficultyLevel = 1
    /\ moveLeftKey = "a"
    /\ moveRightKey = "d"
    /\ pc = "menu"
    /\ input = ""
    /\ sinceUpdate = 0
    /\ cleared = 0
    /\ hitAtTickStart = FALSE
    /\ idle = TRUE
    /\ spawnDraw = 0
    /\ hsFile = NoFile
    /\ lastSaved = -1
    /\ termMode = "raw"
    /\ originalTermios = "cooked"
    /\ cursorVisible = TRUE
    /\ toArrive \in KeyScripts
    /\ typed = toArrive
    /\ stdinBuf = <<>>
    /\ dpc = "idle"
    /\ res = <<>>
    /\ waited = 0
    /\ tokens = <<>>

NextDec ==
    \/ \E k \in 1..4 : arrive(k)
    \/ decCall
    \/ decSelect
    \/ decWait
    \/ decReturn

SpecDecoder == InitDec /\ [][NextDec]_vars

\* the thread that called getInputSequence keeps running
SpecDecoderFair ==
    InitDec /\ [][NextDec]_vars /\ WF_vars(decSelect) /\ WF_vars(decWait)

\* ---- properties ----

\* an obstacle on the bottom row in the player's column
OnPlayerCell(obs, px) == \E i \in 1..Len(obs) : obs[i].y = SCREEN_HEIGHT /\ obs[i].x = px

\* C1: a tick that starts, with no input, from a Running session with an
\* obstacle on row SCREEN_HEIGHT in the player's column ends with gameOver set.
C1_BottomObstacleTickEndsGame ==
    (pc = "draw" /\ hitAtTickStart /\ input = "") => gameOver

\* C2: at the end of a loop iteration, an obstacle on the bottom row in the
\* player's column means the session is Over.
C2_NoSharedCellWhileRunning ==
    (pc = "draw" /\ OnPlayerCell(obstacles, playerX)) => gameOver

\* C3: the collision check sets gameOver exactly when an obstacle is on row
\* SCREEN_HEIGHT in column playerX (an Over session stays Over), and it leaves
\* score, obstacles and playerX alone.
C3_CollisionCheckExact ==
    [][pc = "check" =>
         /\ gameOver' <=> (gameOver \/ OnPlayerCell(obstacles, playerX))
         /\ UNCHANGED <<score, obstacles, playerX>>]_vars

\* a collision check has just ended a session that was Running with no input
C3_Witness ==
    pc = "draw" /\ sinceUpdate = 0 /\ input = "" /\ gameOver
                /\ OnPlayerCell(obstacles, playerX)

\* C4: the advance step adds 1 to the row of every obstacle and keeps its
\* column; it removes at most one obstacle, the front one, exactly when its
\* row exceeds SCREEN_HEIGHT; the others keep their order.
C4_AdvanceByOneRemoveFront ==
    [][pc = "update" =>
         LET n == Len(obstacles)
             gone == n > 0 /\ obstacles[1].y + 1 > SCREEN_HEIGHT
             k == IF gone THEN 1 ELSE 0
         IN  /\ Len(obstacles') >= n - k
             /\ \A i \in (k + 1)..n :
                    /\ obstacles'[i - k].x = obstacles[i].x
                    /\ obstacles'[i - k].y = obstacles[i].y + 1]_vars

\* the first obstacle has just been removed from a full field
C4_Witness ==
    pc = "check" /\ cleared = 1 /\ Len(obstacles) >= 2
                 /\ Head(obstacles).y = SCREEN_HEIGHT - 1

\* C5: inside a session the score changes only in updateObstacles, by +10,
\* together with the removal of the front obstacle and of no other.
C5_ScoreOnlyByTen ==
    [][(pc # "menu" /\ score' # score) =>
         LET n == Len(obstacles)
         IN  /\ pc = "update"
             /\ score' = score + 10
             /\ n > 0
             /\ obstacles[1].y + 1 > SCREEN_HEIGHT
             /\ Len(obstacles') \in {n - 1, n}
             /\ \A i \in 2..n : obstacles'[i - 1].y = obstacles[i].y + 1]_vars

\* a session in which the score has been raised and that is still Running
C5_Witness ==
    pc = "poll" /\ score = 10 /\ ~gameOver

\* C6: playerX stays in 2..TRACK_WIDTH+1; a left move at column 2 and a right
\* move at column TRACK_WIDTH+1 change nothing, any other move is by one
\* column, and nothing but a move inside a session changes playerX.
C6_PlayerWithinTrack ==
    [][/\ playerX \in 2..(TRACK_WIDTH + 1)
       /\ playerX' \in 2..(TRACK_WIDTH + 1)
       /\ (pc = "poll" /\ input' # "" /\ input' = moveLeftKey) =>
              playerX' = (IF playerX = 2 THEN 2 ELSE playerX - 1)
       /\ (pc = "poll" /\ input' # "" /\ input' # moveLeftKey /\ input' = moveRightKey) =>
              playerX' = (IF playerX = TRACK_WIDTH + 1 THEN TRACK_WIDTH + 1 ELSE playerX + 1)
       /\ (pc # "menu" /\ (pc # "poll" \/ input' = ""
                             \/ (input' # moveLeftKey /\ input' # moveRightKey))) =>
              playerX' = playerX]_vars

\* the player has just pressed the right key on or next to the right border
C6_Witness ==
    pc = "time" /\ input = moveRightKey /\ input # moveLeftKey
                /\ playerX = TRACK_WIDTH + 1

\* C7: in an iteration that decoded a quit token no simulation tick runs.
C7_QuitSkipsTick ==
    (pc \in {"update", "check"}) =>
        ~(input \in {"q", "Q", "ETX"} /\ input # moveLeftKey /\ input # moveRightKey)

\* C8: whatever the key bindings, an iteration that polled a quit token ends
\* with the session Over.
C8_QuitTokenEndsSession ==
    (pc = "draw" /\ input \in {"q", "Q", "ETX"}) => gameOver

\* C9: the score is 10 times the number of obstacles removed, and a Running
\* session becomes Over only in a collision check that finds an obstacle on
\* the player's cell or in a poll that reads a quit token; so ticks without
\* input and without such an obstacle leave the session Running.
C9_RunningUnlessHitOrQuit ==
    [][/\ score' = 10 * cleared'
       /\ (~gameOver /\ gameOver') =>
              \/ pc = "check" /\ OnPlayerCell(obstacles, playerX)
              \/ pc = "poll" /\ input' \in {"q", "Q", "ETX"}
       /\ (idle' /\ pc = "check" /\ ~OnPlayerCell(obstacles, playerX)) => ~gameOver']_vars

\* no key was ever pressed, two obstacles have passed, the session is Running
C9_Witness ==
    pc = "draw" /\ sinceUpdate = 0 /\ idle /\ cleared = 2 /\ score = 20 /\ ~gameOver

\* C10: an iteration polls, then runs a tick exactly when the time since the
\* last tick (or the session's start) has reached the tick interval; a tick
\* is one updateObstacles, one checkCollision and the reset of the timer, and
\* the iteration then ends, however much time had passed.
C10_OneTickWhenDue ==
    [][LET ms == 120 - (difficultyLevel * 20)
           interval == IF ms < 20 THEN 20 ELSE ms
       IN  /\ pc = "poll" => pc' = "time"
           /\ pc = "time" => pc' = (IF sinceUpdate >= interval THEN "update" ELSE "draw")
           /\ pc' = "update" => (pc = "time" /\ sinceUpdate >= interval)
           /\ pc = "update" => (pc' = "check" /\ sinceUpdate' = sinceUpdate)
           /\ pc = "check" => (pc' = "draw" /\ sinceUpdate' = 0)
           /\ pc = "draw" => (pc' \in {"poll", "save"} /\ sinceUpdate' > sinceUpdate)
           /\ pc \in {"poll", "time"} => sinceUpdate' = sinceUpdate]_vars

\* a tick starts when at least two tick intervals have passed
C10_Witness ==
    pc = "update" /\ sinceUpdate >= 2 * (120 - (difficultyLevel * 20))

\* C11: after the advance and the removal, an empty field gets a new obstacle
\* exactly when the 30% draw succeeds, a non-empty field exactly when the row
\* of its last obstacle is greater than 2; at most one obstacle is appended,
\* at the back, on row 1 and in a column of 2..TRACK_WIDTH+1.
C11_SpawnPolicy ==
    [][pc = "update" =>
         LET n == Len(obstacles)
             k == IF n > 0 /\ obstacles[1].y + 1 > SCREEN_HEIGHT THEN 1 ELSE 0
             m == n - k
             grown == Len(obstacles') = m + 1
         IN  /\ Len(obstacles') \in {m, m + 1}
             /\ \A i \in 1..m : /\ obstacles'[i].x = obstacles[i + k].x
                                /\ obstacles'[i].y = obstacles[i + k].y + 1
             /\ m = 0 => (grown <=> (spawnDraw' % 10) < 3)
             /\ m > 0 => (grown <=> obstacles[n].y + 1 > 2)
             /\ grown => /\ obstacles'[m + 1].y = 1
                         /\ obstacles'[m + 1].x \in 2..(TRACK_WIDTH + 1)]_vars

\* a second obstacle has just been appended behind one that reached row 3,
\* and both border columns are in use
C11_Witness ==
    /\ pc = "check"
    /\ Len(obstacles) = 2
    /\ obstacles[1].y = 3 /\ obstacles[2].y = 1
    /\ {obstacles[1].x, obstacles[2].x} = {2, TRACK_WIDTH + 1}

\* C19: after every step, rows fall by exactly 2 from each obstacle to the
\* next one behind it, rows are in 1..SCREEN_HEIGHT and columns in
\* 2..TRACK_WIDTH+1, there are never more than SCREEN_HEIGHT/2 obstacles, and
\* a field that is not empty does not become empty during the session.
C19_FieldShape ==
    [][/\ \A i \in 1..Len(obstacles') :
              /\ obstacles'[i].y \in 1..SCREEN_HEIGHT
              /\ obstacles'[i].x \in 2..(TRACK_WIDTH + 1)
       /\ \A i \in 1..(Len(obstacles') - 1) : obstacles'[i].y = obstacles'[i + 1].y + 2
       /\ 2 * Len(obstacles') <= SCREEN_HEIGHT
       /\ (pc # "menu" /\ obstacles # <<>>) => obstacles' # <<>>]_vars

\* the field is full: ten obstacles, the front one on the bottom row
C19_Witness ==
    /\ pc = "draw"
    /\ 2 * Len(obstacles) = SCREEN_HEIGHT
    /\ Head(obstacles).y = SCREEN_HEIGHT
    /\ cleared = 1

\* C17: every start of gameLoop leaves a Running session with score 0, the
\* player on START_PLAYER_X and an empty field, whatever the previous session
\* left behind.
C17_FreshSession ==
    [][(pc = "menu" /\ pc' # "menu") =>
         /\ pc' = "poll"
         /\ gameOver' = FALSE
         /\ score' = 0
         /\ playerX' = (TRACK_WIDTH \div 2) + 1
         /\ obstacles' = <<>>
         /\ sinceUpdate' = 0]_vars

\* a session has just started after one that ended with a score
C17_Witness ==
    /\ pc = "poll" /\ idle /\ sinceUpdate = 0
    /\ highestScore > 0
    /\ score = 0 /\ obstacles = <<>> /\ ~gameOver

\* C20: handling the input leaves the field, the score and the bindings
\* alone; an input that is neither a binding nor a quit token changes nothing
\* of the session and the loop goes on; a tick leaves playerX alone.
C20_FrameConditions ==
    [][/\ pc = "poll" =>
              /\ UNCHANGED <<obstacles, score, moveLeftKey, moveRightKey>>
              /\ (input' \notin {moveLeftKey, moveRightKey, "q", "Q", "ETX"}) =>
                     /\ UNCHANGED <<playerX, gameOver, highestScore, difficultyLevel,
                                    sinceUpdate>>
                     /\ pc' = "time"
       /\ pc \in {"update", "check"} => playerX' = playerX]_vars

\* an unbound key that is no quit token was polled while obstacles were falling
C20_Witness ==
    /\ pc = "time" /\ input = "x" /\ ~gameOver
    /\ obstacles # <<>> /\ playerX # (TRACK_WIDTH \div 2) + 1

\* C18: the level is always in 1..5; the interval a session ticks with is
\* 120 - 20*level ms, never less than 20 ms, and every higher level has a
\* strictly shorter interval.
C18_LevelAndInterval ==
    [][/\ difficultyLevel' \in 1..5
       /\ msDuration(difficultyLevel') = 120 - (20 * difficultyLevel')
       /\ msDuration(difficultyLevel') >= 20
       /\ \A l \in 1..5 : l > difficultyLevel' => msDuration(l) < msDuration(difficultyLevel')
       /\ pc = "time" =>
              (pc' = "update" <=> sinceUpdate >= 120 - (20 * difficultyLevel))
       /\ pc # "menu" => difficultyLevel' = difficultyLevel]_vars

\* a session at the hardest level runs a tick
C18_Witness ==
    pc = "update" /\ difficultyLevel = 5 /\ sinceUpdate >= 20

C12_RawModeReleased ==
    (pc \in {"exited", "killed"} /\ originalTermios # "unset") =>
        (termMode = "cooked" /\ cursorVisible)

\* C13: every blocking read finds the terminal in its original mode, every
\* key poll finds it raw, setupTerminal only runs while the terminal is in
\* its original mode and restoreTerminal, outside the exception handler,
\* only while it is raw; the saved settings are never the raw ones.
C13_ReadsCookedPollsRaw ==
    /\ pc \in {"menu_read", "level_read", "ctl_read", "ack_read", "over_read"} =>
           termMode = "cooked"
    /\ pc \in {"ctl_left", "ctl_right", "loop"} => termMode = "raw"
    /\ pc \in {"main_setup", "menu_setup", "level_setup", "ctl_setup", "ack_setup",
               "over_setup"} => termMode = "cooked"
    /\ pc \in {"menu_restore", "level_restore", "ctl_restore", "ack_restore",
               "over_restore", "exit_restore"} => termMode = "raw"
    /\ originalTermios # "raw"

\* the menu prompt is up again after a game, a new level and new keys
C13_Witness ==
    /\ pc = "menu_read" /\ termMode = "cooked" /\ cursorVisible
    /\ gameOver /\ difficultyLevel = 3 /\ moveLeftKey = "q"

\* the byte sequence of an arrow key
IsArrow(seq) ==
    Len(seq) = 3 /\ seq[1] = "ESC" /\ seq[2] = "[" /\ seq[3] \in {"A", "B", "C", "D"}

\* the keys a byte stream stands for: each arrow sequence is one key, every
\* other byte is a key of its own
RECURSIVE KeysOf(_)
KeysOf(bytes) ==
    IF bytes = <<>> THEN <<>>
    ELSE IF Len(bytes) >= 3 /\ IsArrow(SubSeq(bytes, 1, 3))
         THEN <<SubSeq(bytes, 1, 3)>> \o KeysOf(SubSeq(bytes, 4, Len(bytes)))
         ELSE <<SubSeq(bytes, 1, 1)>> \o KeysOf(Tail(bytes))

\* C14: a result that begins with ESC is returned only when it is a complete
\* arrow sequence or the bounded wait is over, and once all typed bytes are
\* consumed the results are exactly the keys typed, each arrow as its token.
C14_ArrowKeysDecoded ==
    /\ (dpc = "done" /\ res # <<>> /\ res[1] = "ESC") => (IsArrow(res) \/ waited >= 100)
    /\ (dpc = "idle" /\ toArrive = <<>> /\ stdinBuf = <<>>) => tokens = KeysOf(typed)

\* C15: a call with nothing pending returns the empty result in its first
\* step; a result that does not begin with ESC is returned without a sleep; a
\* lone ESC is returned after 13 sleeps of 8 ms; no call sleeps more often;
\* and every call returns.
C15_BoundedWait ==
    /\ [][/\ (dpc = "select" /\ dpc' # "select" /\ stdinBuf = <<>>) =>
                 (dpc' = "done" /\ res' = <<>> /\ waited' = 0)
          /\ waited' \in 0..(13 * 8)
          /\ waited' # waited => (waited' = waited + 8 \/ waited' = 0)
          /\ (dpc' = "done" /\ (res' = <<>> \/ res'[1] # "ESC")) => waited' = 0
          /\ (dpc' = "done" /\ res' = <<"ESC">>) => waited' = 13 * 8]_vars
    /\ (dpc \in {"select", "wait"}) ~> (dpc = "done")

\* a lone ESC has been returned after the full wait
C15_Witness ==
    dpc = "done" /\ res = <<"ESC">> /\ waited = 104 /\ typed = <<"ESC">>

TypeOK ==
    /\ playerX \in Int
    /\ score \in Nat
    /\ gameOver \in BOOLEAN
    /\ pc \in STRING
====
